---- MODULE Spec2Model ----
(***************************************************************************)
(* Model of the email-to-DingTalk bridge: main.py (main, run_daemon,       *)
(* process_emails), src/email_fetcher.py (EmailFetcher) and                *)
(* src/dingtalk_notifier.py (DingTalkNotifier.send).                       *)
(*                                                                         *)
(* The mail server and the webhook are the environment.  Each library call *)
(* the code makes (imaplib, requests) has its outcome drawn from the set   *)
(* of results that call can produce; what the code does with the outcome   *)
(* is translated from the source.                                          *)
(***************************************************************************)
EXTENDS Integers, Sequences, FiniteSets, TLC

VARIABLES
    mode,           \* "single" (main) or "daemon" (run_daemon)
    pc,             \* position of the process
    status,         \* exit status of the process, -1 while it runs
    traceback,      \* TRUE when the process ended on an uncaught exception
    npass,          \* number of the current pass
    mailbox,        \* server: the messages 1..mailbox exist
    unseen,         \* server: messages without the \Seen flag
    sessions,       \* sessions opened by IMAP4_SSL() and not shut down by logout()
    connection,     \* EmailFetcher.connection: "None" or the imaplib state of the object
    exc,            \* exception class raised by the last call and not yet handled
    failed_at,      \* connect(): the library call that failed
    lib_exc,        \* connect(): the library exception it failed with
    tried,          \* connect(): number of select() calls issued
    inbox_name,     \* connect(): the inbox name that was selected
    email_ids,      \* fetch_unread_emails: result of the UNSEEN search
    search_status,  \* fetch_unread_emails: answer of the search ("none" outside the call)
    fetch_outcomes, \* fetch_unread_emails: answer of the fetch of each id
    issued,         \* fetch_unread_emails: ids for which a fetch was issued, in order
    emails,         \* process_emails: the fetched messages (their ids)
    fetch_raised,   \* process_emails: fetch_unread_emails raised EmailFetcherError
    idx,            \* process_emails: position of the for loop in emails
    success_count,  \* process_emails: success_count
    result,         \* process_emails: returned value, -1 before it returns
    attempt,        \* send: loop variable of range(MAX_RETRIES)
    backoff,        \* send: backoff
    outcomes,       \* send: outcome of each POST of the current call
    sleeps,         \* send: durations of the time.sleep calls of the current call
    send_ret,       \* send: "none" while running, then "true", "false" or "raised"
    log,            \* per message of the pass: [id, sent, mark]
    posted,         \* ids of the pass whose POST was answered with errcode 0, in order
    called,         \* client used directly: the method called last
    store_status,   \* client used directly: answer of the store of the last mark_as_read
    mark_ret,       \* client used directly: value the last mark_as_read returned
    file_cfg,       \* load_config: the config file ([kind, values])
    env_cfg,        \* load_config: the environment variables of ENV_MAPPING
    config,         \* load_config: the Config it returned
    html,           \* _html_to_text: the document fed so far, a sequence of tokens
    skip_data,      \* HTMLTextExtractor.skip_data
    text_parts,     \* HTMLTextExtractor.text_parts
    text,           \* _html_to_text: what get_text returned
    msg,            \* EmailParser._extract_body: the message ([multipart, parts])
    body,           \* EmailParser._extract_body: what it returned, or raised
    content,        \* EmailParser.decode_content: the bytes
    charset,        \* EmailParser.decode_content: the declared charset
    decoded,        \* EmailParser.decode_content: what it returned, or raised
    email,          \* DingTalkNotifier.format_message: the Email passed in
    message         \* DingTalkNotifier.format_message: the payload it returned

vars == <<mode, pc, status, traceback, npass, mailbox, unseen, sessions,
          connection, exc, failed_at, lib_exc, tried, inbox_name, email_ids,
          emails, fetch_raised, idx, success_count, result, attempt, backoff,
          outcomes, sleeps, send_ret, log, posted, search_status,
          fetch_outcomes, issued, called, store_status, mark_ret, file_cfg,
          env_cfg, config, html, skip_data, text_parts, text, msg, body,
          content, charset, decoded, email, message>>

\* locals of fetch_unread_emails
fetchVars == <<search_status, fetch_outcomes, issued>>

\* variables the process (main, run_daemon) does not touch
sideVars == <<called, store_status, mark_ret, file_cfg, env_cfg, config, html,
              skip_data, text_parts, text, msg, body, content, charset, decoded,
              email, message>>

htmlVars == <<html, skip_data, text_parts, text>>

parseVars == <<msg, body, content, charset, decoded>>

formatVars == <<email, message>>

cfgVars == <<file_cfg, env_cfg, config>>

\* what a direct caller of the client observes
apiVars == <<called, store_status, mark_ret>>

runVars == <<mode, pc, status, traceback, npass>>

sendVars == <<attempt, backoff, outcomes, sleeps, send_ret>>

loopVars == <<idx, success_count, result, log, posted>>

(***************************************************************************)
(* Bounds of the model.                                                    *)
(***************************************************************************)
MaxMsgs == 3

MaxPasses == 2

\* tokens (tags and pieces of character data) of an HTML document
MaxTokens == 6

\* leaf parts of a multipart message
MaxParts == 2

\* characters an email body may have beyond the limit of the notifier
MaxOver == 3

(***************************************************************************)
(* Program constants.                                                      *)
(***************************************************************************)
MAX_RETRIES == 3

INITIAL_BACKOFF == 1

inbox_names == <<"INBOX", "inbox", "Inbox">>

(***************************************************************************)
(* Outcomes of the library calls (the environment's answers).              *)
(***************************************************************************)
\* imaplib.IMAP4_SSL(host): connected, timed out, refused/unreachable, or the
\* server's greeting was not OK (imaplib raises IMAP4.error)
OpenOutcomes == {"ok", "socket.timeout", "OSError", "IMAP4.error"}

\* connection.login: accepted, answered NO (IMAP4.error), the socket closed
\* under it (IMAP4.abort, a subclass of IMAP4.error), or timed out
LoginOutcomes == {"ok", "IMAP4.error", "IMAP4.abort", "socket.timeout"}

\* connection.select(name): status OK, status NO, or the link failed
SelectOutcomes == {"OK", "NO", "IMAP4.abort", "socket.timeout"}

\* connection.search(None, 'UNSEEN'): status OK, status NO, or an exception
SearchOutcomes == {"OK", "NO", "exc"}

\* connection.fetch(id, '(RFC822)') followed by EmailParser.parse:
\* parsed, status not OK, OK without data, parse raised, fetch raised
FetchOutcomes == {"ok", "NO", "empty", "parse_error", "IMAP4.abort"}

\* connection.store(id, '+FLAGS', '\\Seen'): status OK, status NO, exception
StoreOutcomes == {"OK", "NO", "exc"}

\* requests.post + response.json(): errcode 0, a nonzero errcode, a
\* requests.RequestException, or a JSON body that is no object (result.get
\* raises AttributeError)
PostOutcomes == {"ok", "errcode", "RequestException", "nondict"}

Msgs == 1..MaxMsgs

(***************************************************************************)
(* Helpers.                                                                *)
(***************************************************************************)
Min(S) == CHOOSE x \in S : \A y \in S : x <= y

RECURSIVE SetToSeq(_)
\* message_ids[0].split(): the sequence numbers of the search, ascending
SetToSeq(S) == IF S = {} THEN <<>> ELSE <<Min(S)>> \o SetToSeq(S \ {Min(S)})

Range(s) == {s[i] : i \in 1..Len(s)}

(***************************************************************************)
(* ConfigManager.load_config                                               *)
(***************************************************************************)
REQUIRED_FIELDS ==
    {"email_host", "email_user", "email_password", "dingtalk_webhook",
     "dingtalk_secret"}

\* a dict over the required fields; "absent" stands for a key that is not
\* there, "" for an empty value, "f" for a value written in the file and
\* "e" for a value of the environment
NoValues == [f \in REQUIRED_FIELDS |-> "absent"]

\* the config file: none given (or the path does not exist), not
\* loadable as JSON, or a JSON object
ConfigFiles ==
    {[kind |-> "nofile", values |-> NoValues], [kind |-> "badjson", values |-> NoValues]}
    \cup {[kind |-> "dict", values |-> v] : v \in [REQUIRED_FIELDS -> {"absent", "", "f"}]}

ConfigEnvs == [REQUIRED_FIELDS -> {"absent", "", "e"}]

\* _load_from_env: value = os.environ.get(env_var); if value: config[field] = value
LoadFromEnv(env) ==
    [f \in REQUIRED_FIELDS |-> IF env[f] \notin {"absent", ""} THEN env[f] ELSE "absent"]

\* config_dict.update(env_config)
Update(d, e) == [f \in REQUIRED_FIELDS |-> IF e[f] # "absent" THEN e[f] ELSE d[f]]

\* variant: only a key that is not there counts as missing
get_missing_fields_AbsentOnly(cfg) == {f \in REQUIRED_FIELDS : cfg[f] = "absent"}

\* [f for f in REQUIRED_FIELDS if f not in config or not config[f]]
get_missing_fields(cfg) == {f \in REQUIRED_FIELDS : cfg[f] = "absent" \/ cfg[f] = ""}

\* load_config: raises ValueError when the file cannot be loaded or a
\* required field is missing, else returns the merged Config
load_config(file, env) ==
    LET merged == Update(file.values, LoadFromEnv(env))
    IN  IF file.kind = "badjson"
        THEN [raised |-> TRUE, config |-> NoValues]
        ELSE IF get_missing_fields(merged) # {}
        THEN [raised |-> TRUE, config |-> NoValues]
        ELSE [raised |-> FALSE, config |-> merged]

(***************************************************************************)
(* HTMLTextExtractor.  A document is a sequence of tokens, each of which   *)
(* HTMLParser.feed hands to one handler: [type |-> "start"] an opening tag *)
(* of an element that is closed later, "void" the tag of an element that   *)
(* has no closing tag (<meta ...>), "startend" its self-closed form        *)
(* (<meta .../>), "end" a closing tag, "data" a piece of non-blank text.   *)
(***************************************************************************)
skip_tags == {"script", "style", "head", "meta", "link"}

\* elements with content, and elements that never have any
Elements == {"head", "style", "script", "title", "p"}

VoidElements == {"meta", "link"}

\* elements whose content the parser reads as character data only
CDataElements == {"script", "style"}

\* tags handle_starttag and handle_endtag turn into a line break
StartBreaks == {"br", "p", "div", "tr", "li"}

EndBreaks == {"p", "div", "tr", "h1", "h2", "h3", "h4", "h5", "h6"}

\* the elements open after the tokens h, outermost first
RECURSIVE OpenElements(_)
OpenElements(h) ==
    IF h = <<>> THEN <<>>
    ELSE LET before == OpenElements(SubSeq(h, 1, Len(h) - 1))
             t == h[Len(h)]
         IN  CASE t.type = "start" -> Append(before, t.tag)
               [] t.type = "end" -> SubSeq(before, 1, Len(before) - 1)
               [] OTHER -> before

\* the i-th token lies inside a script, style or head element (meta and
\* link have no content, nothing lies inside them)
InSkipped(h, i) ==
    \E e \in Range(OpenElements(SubSeq(h, 1, i - 1))) : e \in skip_tags

DataOf(h, inside) ==
    {h[i].tag : i \in {j \in 1..Len(h) : h[j].type = "data" /\ InSkipped(h, j) = inside}}

\* handle_starttag, on the extractor e = [skip_data, text_parts]
starttag(e, tag) ==
    IF tag \in skip_tags
    THEN [e EXCEPT !.skip_data = TRUE]
    ELSE IF tag \in StartBreaks
    THEN [e EXCEPT !.text_parts = Append(@, "\n")]
    ELSE e

\* handle_endtag
endtag(e, tag) ==
    IF tag \in skip_tags
    THEN [e EXCEPT !.skip_data = FALSE]
    ELSE IF tag \in EndBreaks
    THEN [e EXCEPT !.text_parts = Append(@, "\n")]
    ELSE e

\* handle_data
data(e, d) ==
    IF ~e.skip_data THEN [e EXCEPT !.text_parts = Append(@, d)] ELSE e

\* re.sub(r'\n\s*\n', '\n\n', text): a run of line breaks becomes two
RECURSIVE Squeeze(_)
Squeeze(p) ==
    IF p = <<>> THEN <<>>
    ELSE LET q == Squeeze(SubSeq(p, 1, Len(p) - 1))
             x == p[Len(p)]
         IN  IF x = "\n" /\ Len(q) >= 2 /\ q[Len(q)] = "\n" /\ q[Len(q) - 1] = "\n"
             THEN q
             ELSE Append(q, x)

\* text.strip()
RECURSIVE Strip(_)
Strip(p) ==
    IF p = <<>> THEN <<>>
    ELSE IF p[1] = "\n" THEN Strip(SubSeq(p, 2, Len(p)))
    ELSE IF p[Len(p)] = "\n" THEN Strip(SubSeq(p, 1, Len(p) - 1))
    ELSE p

\* get_text: the pieces of the text, in order
get_text(parts) == Strip(Squeeze(parts))

(***************************************************************************)
(* EmailParser.decode_content.  Byte strings are named after the narrowest *)
(* codec of the list that decodes them: "ascii" is 61 62 63, "utf8" is     *)
(* E4 B8 AD, "gbk" is D6 D0, "gb18030" is 81 30 81 30, "latin1" is FF.    *)
(* A text is the bytes together with the codec that decoded them.          *)
(***************************************************************************)
SUPPORTED_ENCODINGS == <<"utf-8", "gbk", "gb2312", "gb18030", "iso-8859-1", "ascii">>

Contents == {"empty", "ascii", "utf8", "gbk", "gb18030", "latin1"}

\* declared charsets: none, an empty name, the codecs of the list, another
\* codec, a name no codec has, and the codec "undefined" of the library
Charsets ==
    {"None", "", "utf-8", "gbk", "gb2312", "gb18030", "iso-8859-1", "ascii",
     "utf-16", "no-such", "undefined"}

\* the byte strings a codec decodes
Decodable(enc) ==
    CASE enc = "utf-8" -> {"ascii", "utf8"}
      [] enc = "gbk" -> {"ascii", "gbk"}
      [] enc = "gb2312" -> {"ascii", "gbk"}
      [] enc = "gb18030" -> {"ascii", "gbk", "gb18030"}
      [] enc = "iso-8859-1" -> {"ascii", "utf8", "gbk", "gb18030", "latin1"}
      [] enc = "ascii" -> {"ascii"}
      [] enc = "utf-16" -> {"gbk", "gb18030"}
      [] OTHER -> {}

\* content.decode(enc): "ok", or the exception it raises.  The codec
\* "undefined" raises UnicodeError on every input.
Decode(c, enc) ==
    IF enc = "no-such" THEN "LookupError"
    ELSE IF enc = "undefined" THEN "UnicodeError"
    ELSE IF c \in Decodable(enc) THEN "ok"
    ELSE "UnicodeDecodeError"

\* except (UnicodeDecodeError, LookupError); UnicodeError is the parent
\* class of UnicodeDecodeError and is not caught by it
DecodeCaught(e) == e \in {"UnicodeDecodeError", "LookupError"}

NoText == [bytes |-> "empty", encoding |-> "none", errors |-> "strict"]

\* for encoding in SUPPORTED_ENCODINGS, from the i-th on, and the final
\* content.decode('utf-8', errors='replace')
RECURSIVE DecodeFrom(_, _, _)
DecodeFrom(c, i, attempted) ==
    IF i > Len(SUPPORTED_ENCODINGS)
    THEN [raised |-> "none", attempted |-> attempted,
          text |-> [bytes |-> c, encoding |-> "utf-8", errors |-> "replace"]]
    ELSE LET enc == SUPPORTED_ENCODINGS[i]
             o == Decode(c, enc)
         IN  IF o = "ok"
             THEN [raised |-> "none", attempted |-> Append(attempted, enc),
                   text |-> [bytes |-> c, encoding |-> enc, errors |-> "strict"]]
             ELSE IF DecodeCaught(o)
             THEN DecodeFrom(c, i + 1, Append(attempted, enc))
             ELSE [raised |-> o, attempted |-> Append(attempted, enc), text |-> NoText]

\* decode_content(content, charset): [raised, attempted, text]
decode_content(c, cs) ==
    IF c = "empty"
    THEN [raised |-> "none", attempted |-> <<>>, text |-> NoText]
    ELSE IF cs \notin {"None", ""}
    THEN LET o == Decode(c, cs)
         IN  IF o = "ok"
             THEN [raised |-> "none", attempted |-> <<cs>>,
                   text |-> [bytes |-> c, encoding |-> cs, errors |-> "strict"]]
             ELSE IF DecodeCaught(o)
             THEN DecodeFrom(c, 1, <<cs>>)
             ELSE [raised |-> o, attempted |-> <<cs>>, text |-> NoText]
    ELSE DecodeFrom(c, 1, <<>>)

(***************************************************************************)
(* EmailParser._extract_body.  A message is [multipart, parts]: parts are  *)
(* the leaf parts in the order of msg.walk() (the multipart containers it  *)
(* also yields have no payload), or the message itself when it is not      *)
(* multipart.  A part is [type, disposition, filename, payload, charset].  *)
(***************************************************************************)
\* the Content-Disposition header: its type as written, and the filename
\* parameter
Dispositions ==
    {[kind |-> "none", filename |-> "none"],
     [kind |-> "attachment", filename |-> "a.txt"],
     [kind |-> "ATTACHMENT", filename |-> "a.txt"],
     [kind |-> "inline", filename |-> "attachment.txt"]}

Parts ==
    [type : {"text/plain", "text/html", "image/png"},
     disposition : Dispositions,
     payload : {"empty", "gbk"},
     charset : {"None", "gbk", "undefined"}]

\* the part is an attachment: its disposition type is "attachment", in
\* any case of the letters
IsAttachment(p) == p.disposition.kind \in {"attachment", "ATTACHMENT"}

\* 'attachment' in content_disposition: the word occurs in the header
Skipped(p) ==
    p.disposition.kind = "attachment" \/ p.disposition.filename = "attachment.txt"

\* part.get_content_charset() or 'utf-8'
CharsetOf(p) == IF p.charset = "None" THEN "utf-8" ELSE p.charset

NoBody == [raised |-> "none", via |-> "none", part |-> 0, text |-> NoText]

FirstIn(S) == IF S = {} THEN 0 ELSE Min(S)

\* the value of _extract_body when it takes the i-th part
BodyOf(parts, i, via) ==
    LET d == decode_content(parts[i].payload, CharsetOf(parts[i]))
    IN  IF d.raised # "none"
        THEN [raised |-> d.raised, via |-> "none", part |-> i, text |-> NoText]
        ELSE [raised |-> "none", via |-> via, part |-> i, text |-> d.text]

\* _extract_body(msg): [raised, via, part, text]; via says how the text was
\* made ("plain": decoded, "html": decoded and passed to _html_to_text,
\* "payload": the sole payload decoded)
extract_body(m) ==
    LET n == Len(m.parts)
        plain == FirstIn({i \in 1..n : /\ ~Skipped(m.parts[i])
                                       /\ m.parts[i].type = "text/plain"
                                       /\ m.parts[i].payload # "empty"})
        htmlp == FirstIn({i \in 1..n : /\ m.parts[i].type = "text/html"
                                       /\ m.parts[i].payload # "empty"})
    IN  IF m.multipart
        THEN IF plain # 0 THEN BodyOf(m.parts, plain, "plain")
             ELSE IF htmlp # 0 THEN BodyOf(m.parts, htmlp, "html")
             ELSE NoBody
        ELSE IF m.parts[1].payload # "empty" THEN BodyOf(m.parts, 1, "payload")
             ELSE NoBody

NoParse ==
    /\ msg = [multipart |-> FALSE, parts |-> <<>>]
    /\ body = NoBody
    /\ content = "empty"
    /\ charset = "None"
    /\ decoded = [raised |-> "none", attempted |-> <<>>, text |-> NoText]

NoFormat ==
    /\ email = [subject |-> "", sender |-> "", date |-> "", body |-> <<>>]
    /\ message = [msgtype |-> "none"]

(***************************************************************************)
(* DingTalkNotifier.format_message.  A string is the sequence of its       *)
(* characters; the character at position i of a body is written as the     *)
(* digits of i.                                                            *)
(***************************************************************************)
\* if len(body) > 2000
BodyLimit == 2000

\* the literal appended to a cut body: three dots and, in brackets, five
\* CJK characters (written c1..c5)
TruncationMarker == <<".", ".", ".", "(", "c1", "c2", "c3", "c4", "c5", ")">>

Chars(n) == [i \in 1..n |-> ToString(i)]

\* variant: a body of exactly the limit is cut as well
truncate_AtLimit(b) ==
    IF Len(b) >= BodyLimit THEN SubSeq(b, 1, BodyLimit) \o TruncationMarker ELSE b

\* body = email.body; if len(body) > 2000: body = body[:2000] + marker
truncate(b) ==
    IF Len(b) > BodyLimit THEN SubSeq(b, 1, BodyLimit) \o TruncationMarker ELSE b

\* format_message(email): the payload; its text is the template filled
\* with the subject, the sender, the date and the body
format_message(e) ==
    [msgtype |-> "markdown",
     markdown |-> [title |-> "title",
                   text |-> [subject |-> e.subject, sender |-> e.sender,
                             date |-> e.date, body |-> truncate(e.body)]]]

(***************************************************************************)
(* EmailFetcher.connect                                                    *)
(***************************************************************************)
\* the except clauses of connect(): which class a library exception becomes
ClassifyError(e) ==
    CASE e \in {"IMAP4.error", "IMAP4.abort"} -> "AuthenticationError"
      [] e = "socket.timeout" -> "ConnectionError"
      [] e = "OSError" -> "ConnectionError"
      [] OTHER -> e

\* the inbox loop: index of the first select() that does not answer NO
\* (0 when all of them answer NO)
FirstStop(sel) ==
    IF \A i \in 1..Len(inbox_names) : sel[i] = "NO" THEN 0
    ELSE Min({i \in 1..Len(inbox_names) : sel[i] # "NO"})

\* the body of connect() for given answers of the server
connect(open, login, sel) ==
    LET base == [connection |-> "None", opened |-> FALSE, exc |-> "none",
                 failed_at |-> "none", lib_exc |-> "none", tried |-> 0,
                 inbox_name |-> "none"]
        k == FirstStop(sel)
    IN  IF open # "ok"
        THEN [base EXCEPT !.exc = ClassifyError(open), !.failed_at = "open",
                          !.lib_exc = open]
        ELSE IF login # "ok"
        THEN [base EXCEPT !.connection = "NONAUTH", !.opened = TRUE,
                          !.exc = ClassifyError(login), !.failed_at = "login",
                          !.lib_exc = login]
        ELSE IF k = 0
        THEN [base EXCEPT !.connection = "AUTH", !.opened = TRUE,
                          !.exc = ClassifyError("EmailFetcherError"),
                          !.failed_at = "select", !.lib_exc = "none",
                          !.tried = Len(inbox_names)]
        ELSE IF sel[k] = "OK"
        THEN [base EXCEPT !.connection = "SELECTED", !.opened = TRUE,
                          !.tried = k, !.inbox_name = inbox_names[k]]
        ELSE [base EXCEPT !.connection = "AUTH", !.opened = TRUE,
                          !.exc = ClassifyError(sel[k]), !.failed_at = "select",
                          !.lib_exc = sel[k], !.tried = k]

\* every way a call of connect() can end
ConnectResults ==
    {connect(open, login, sel) : open \in OpenOutcomes, login \in LoginOutcomes,
                                 sel \in [1..Len(inbox_names) -> SelectOutcomes]}

(***************************************************************************)
(* EmailFetcher.disconnect                                                 *)
(***************************************************************************)
\* imaplib allows CLOSE only in state SELECTED; elsewhere close() raises
\* IMAP4.error before logout() is reached
CloseRaises(c) == c # "SELECTED"

\* logout() is reached, and shuts the session down, only when close() returned
LogoutReached(c) == c # "None" /\ ~CloseRaises(c)

(***************************************************************************)
(* EmailFetcher.fetch_unread_emails                                        *)
(***************************************************************************)
\* FETCH RFC822 on a mailbox selected read-write sets \Seen on the message
\* it returns (RFC 3501 6.4.5); a failed fetch returns no message
FetchSetsSeen(o) == o \in {"ok", "parse_error"}

\* the first guard of fetch_unread_emails and of mark_as_read
NotConnected(c) == c = "None"

\* search and store are legal only in state SELECTED
IllegalState(c) == c # "SELECTED"

\* variant: a search that answers NO is taken for an empty result list
SearchFailed_Never(st) == FALSE

\* if status != 'OK': return emails
SearchFailed(st) == st # "OK"

\* the search raised: the outer `except Exception` turns it into
\* EmailFetcherError
SearchRaised(st) == st = "exc"

\* variant: a protocol failure of one fetch leaves the loop
AbortsBatch_OnProtocolError(o) == o = "IMAP4.abort"

\* the inner `except Exception: continue` catches whatever the fetch or the
\* parse of one message raises: no outcome leaves the loop
AbortsBatch(o) == FALSE

\* the message reaches emails.append(email_obj)
Parsed(o) == o = "ok"

RECURSIVE FetchLoop(_, _)
\* for email_id in email_ids: fetch, parse, append; skip on any failure
FetchLoop(ids, o) ==
    IF ids = <<>>
    THEN [emails |-> <<>>, issued |-> <<>>, aborted |-> FALSE]
    ELSE LET id == Head(ids)
             rest == FetchLoop(Tail(ids), o)
         IN  IF AbortsBatch(o[id])
             THEN [emails |-> <<>>, issued |-> <<id>>, aborted |-> TRUE]
             ELSE [emails |-> (IF Parsed(o[id]) THEN <<id>> ELSE <<>>) \o rest.emails,
                   issued |-> <<id>> \o rest.issued,
                   aborted |-> rest.aborted]

fetch_unread_emails(c, search, o, unread) ==
    LET ids == SetToSeq(unread)
        loop == FetchLoop(ids, o)
        none == [raised |-> FALSE, not_connected |-> FALSE, ids |-> <<>>,
                 emails |-> <<>>, issued |-> <<>>, seen |-> {}]
    IN  IF NotConnected(c)
        THEN [none EXCEPT !.raised = TRUE, !.not_connected = TRUE]
        ELSE IF IllegalState(c) \/ SearchRaised(search)
        THEN [none EXCEPT !.raised = TRUE]
        ELSE IF SearchFailed(search)
        THEN none
        ELSE [none EXCEPT !.ids = ids,
                          !.raised = loop.aborted,
                          !.emails = IF loop.aborted THEN <<>> ELSE loop.emails,
                          !.issued = loop.issued,
                          !.seen = {id \in Range(loop.issued) : FetchSetsSeen(o[id])}]

(***************************************************************************)
(* EmailFetcher.mark_as_read                                               *)
(***************************************************************************)
\* whether a STORE command reaches the server
StoreIssued(c) == ~NotConnected(c) /\ ~IllegalState(c)

\* variant: any answer of the server counts as an acknowledgement
mark_as_read_AnyAnswer(c, store) == StoreIssued(c) /\ store # "exc"

mark_as_read(c, store) == StoreIssued(c) /\ store = "OK"

\* what connection.store raises: imaplib refuses STORE outside state
\* SELECTED, or the command itself fails
StoreException(c, store) ==
    IF IllegalState(c) THEN "IMAP4.error"
    ELSE IF store = "exc" THEN "Exception"
    ELSE "none"

\* except Exception as e: return False
MarkCatches(e) == TRUE

\* the exception that leaves mark_as_read ("none": it returns)
MarkRaises(c, store) ==
    IF ~NotConnected(c) /\ StoreException(c, store) # "none"
                       /\ ~MarkCatches(StoreException(c, store))
    THEN StoreException(c, store)
    ELSE "none"

(***************************************************************************)
(* DingTalkNotifier.send                                                   *)
(***************************************************************************)
\* variant: the transport status alone decides (any answered POST counts)
IsSuccess_AnyAnswer(o) == o \in {"ok", "errcode"}

\* result.get('errcode') == 0
IsSuccess(o) == o = "ok"

\* the exception escapes `except requests.RequestException`
Escapes(o) == o = "nondict"

\* variant: sleeps after every failed attempt, the last one too
ShouldSleep_Always(a) == a < MAX_RETRIES

\* if attempt < self.MAX_RETRIES - 1
ShouldSleep(a) == a < MAX_RETRIES - 1

\* backoff *= 2
NextBackoff(b) == b * 2

\* range(self.MAX_RETRIES) is exhausted after this attempt
LastAttempt(a) == a + 1 >= MAX_RETRIES

(***************************************************************************)
(* process_emails                                                          *)
(***************************************************************************)
\* variant: the loop walks the list from its end
EmailAt_Reversed(es, i) == es[Len(es) + 1 - i]

\* for email in emails: the message of iteration i
EmailAt(es, i) == es[i]

\* variant: marks whatever send() returned
ShouldMark_Always(r) == r \in {"true", "false"}

\* if dingtalk_notifier.send(email):
ShouldMark(r) == r = "true"

\* variant: counts every notified message
CountIncrement_Notified(marked) == 1

\* if email_fetcher.mark_as_read(email.id): success_count += 1
CountIncrement(marked) == IF marked THEN 1 ELSE 0

(***************************************************************************)
(* run_daemon                                                              *)
(***************************************************************************)
\* variant: only the first except clause of the loop is there
DaemonCatches_ConnectionOnly(e) == e \in {"AuthenticationError", "ConnectionError"}

\* except (AuthenticationError, ConnectionError) ... except Exception:
\* every exception of a pass is caught and logged
DaemonCatches(e) == TRUE

NoSend == /\ attempt' = 0
          /\ backoff' = INITIAL_BACKOFF
          /\ outcomes' = <<>>
          /\ sleeps' = <<>>
          /\ send_ret' = "none"

NoPass == /\ email_ids' = <<>>
          /\ emails' = <<>>
          /\ fetch_raised' = FALSE
          /\ idx' = 0
          /\ success_count' = 0
          /\ result' = -1
          /\ log' = <<>>
          /\ posted' = <<>>
          /\ NoSend

NoFetch == /\ search_status' = "none"
           /\ fetch_outcomes' = <<>>
           /\ issued' = <<>>

NoConnect == /\ failed_at' = "none"
             /\ lib_exc' = "none"
             /\ tried' = 0
             /\ inbox_name' = "none"

\* the for loop moves to the next message, or ends
Advance ==
    /\ idx' = idx + 1
    /\ pc' = IF idx + 1 > Len(emails) THEN "return" ELSE "send"
    /\ NoSend

(***************************************************************************)
(* Initial state: the process starts in one of its two modes, against a   *)
(* mailbox holding some messages, some of them unread.                     *)
(***************************************************************************)
Init ==
    /\ mode \in {"single", "daemon"}
    /\ pc = "load_config"
    /\ status = -1
    /\ traceback = FALSE
    /\ npass = 1
    /\ mailbox \in 0..MaxMsgs
    /\ unseen \in SUBSET (1..mailbox)
    /\ sessions = 0
    /\ connection = "None"
    /\ exc = "none"
    /\ failed_at = "none"
    /\ lib_exc = "none"
    /\ tried = 0
    /\ inbox_name = "none"
    /\ email_ids = <<>>
    /\ emails = <<>>
    /\ fetch_raised = FALSE
    /\ idx = 0
    /\ success_count = 0
    /\ result = -1
    /\ attempt = 0
    /\ backoff = INITIAL_BACKOFF
    /\ outcomes = <<>>
    /\ sleeps = <<>>
    /\ send_ret = "none"
    /\ log = <<>>
    /\ posted = <<>>
    /\ search_status = "none"
    /\ fetch_outcomes = <<>>
    /\ issued = <<>>
    /\ called = "none"
    /\ store_status = "none"
    /\ mark_ret = "none"
    /\ file_cfg = [kind |-> "nofile", values |-> NoValues]
    /\ env_cfg \in {NoValues, [f \in REQUIRED_FIELDS |-> "e"]}
    /\ config = NoValues
    /\ html = <<>>
    /\ skip_data = FALSE
    /\ text_parts = <<>>
    /\ text = <<>>
    /\ NoParse
    /\ NoFormat

(***************************************************************************)
(* Actions.                                                                *)
(***************************************************************************)
\* main / run_daemon: ConfigManager.load_config() returns, or raises
\* ValueError and the process returns 1
LoadConfig ==
    /\ pc = "load_config"
    /\ LET r == load_config(file_cfg, env_cfg)
       IN  IF r.raised
           THEN /\ pc' = "exit"
                /\ status' = 1
                /\ config' = config
           ELSE /\ pc' = "connect"
                /\ status' = status
                /\ config' = r.config
    /\ UNCHANGED <<mode, traceback, npass, mailbox, unseen, sessions,
                   connection, exc, failed_at, lib_exc, tried, inbox_name,
                   email_ids, emails, fetch_raised, idx, success_count, result,
                   attempt, backoff, outcomes, sleeps, send_ret, log, posted>>
    /\ UNCHANGED fetchVars
    /\ UNCHANGED <<apiVars, file_cfg, env_cfg, htmlVars, parseVars, formatVars>>

\* email_fetcher.connect()
Connect ==
    /\ pc = "connect"
    /\ \E r \in ConnectResults :
              /\ connection' = r.connection
              /\ sessions' = sessions + (IF r.opened THEN 1 ELSE 0)
              /\ exc' = r.exc
              /\ failed_at' = r.failed_at
              /\ lib_exc' = r.lib_exc
              /\ tried' = r.tried
              /\ inbox_name' = r.inbox_name
    /\ pc' = "connected"
    /\ UNCHANGED <<mode, status, traceback, npass, mailbox, unseen, email_ids,
                   emails, fetch_raised, idx, success_count, result, attempt,
                   backoff, outcomes, sleeps, send_ret, log, posted>>
    /\ UNCHANGED fetchVars
    /\ UNCHANGED sideVars

\* main: the try around connect(); AuthenticationError returns 2,
\* ConnectionError returns 3, any other exception is not caught
MainConnected ==
    /\ pc = "connected"
    /\ mode = "single"
    /\ CASE exc = "none" ->
              /\ pc' = "fetch"
              /\ UNCHANGED <<status, traceback>>
         [] exc = "AuthenticationError" ->
              /\ pc' = "exit"
              /\ status' = 2
              /\ UNCHANGED traceback
         [] exc = "ConnectionError" ->
              /\ pc' = "exit"
              /\ status' = 3
              /\ UNCHANGED traceback
         [] OTHER ->
              /\ pc' = "exit"
              /\ status' = 1
              /\ traceback' = TRUE
    /\ NoConnect
    /\ UNCHANGED <<mode, npass, mailbox, unseen, sessions, connection, exc,
                   email_ids, emails, fetch_raised, idx, success_count, result,
                   attempt, backoff, outcomes, sleeps, send_ret, log, posted>>
    /\ UNCHANGED fetchVars
    /\ UNCHANGED sideVars

\* run_daemon: the try around connect(); every exception is logged and
\* control passes to the finally clause
DaemonConnected ==
    /\ pc = "connected"
    /\ mode = "daemon"
    /\ pc' = IF exc = "none" THEN "fetch" ELSE "disconnect"
    /\ NoConnect
    /\ UNCHANGED <<mode, status, traceback, npass, mailbox, unseen, sessions,
                   connection, exc, email_ids, emails, fetch_raised, idx,
                   success_count, result, attempt, backoff, outcomes, sleeps,
                   send_ret, log, posted>>
    /\ UNCHANGED fetchVars
    /\ UNCHANGED sideVars

\* process_emails: emails = email_fetcher.fetch_unread_emails()
ProcessFetch ==
    /\ pc = "fetch"
    /\ \E search \in SearchOutcomes, o \in [unseen -> FetchOutcomes] :
          LET r == fetch_unread_emails(connection, search, o, unseen)
          IN  /\ email_ids' = r.ids
              /\ emails' = r.emails
              /\ fetch_raised' = r.raised
              /\ unseen' = unseen \ r.seen
              /\ search_status' = search
              /\ fetch_outcomes' = o
              /\ issued' = r.issued
    /\ pc' = "fetched"
    /\ UNCHANGED <<mode, status, traceback, npass, mailbox, sessions,
                   connection, exc, failed_at, lib_exc, tried, inbox_name, idx,
                   success_count, result, attempt, backoff, outcomes, sleeps,
                   send_ret, log, posted>>
    /\ UNCHANGED sideVars

\* process_emails: the EmailFetcherError handler, the `if not emails`
\* return, and the entry of the for loop
ProcessBranch ==
    /\ pc = "fetched"
    /\ IF fetch_raised \/ emails = <<>>
       THEN /\ result' = 0
            /\ idx' = 0
            /\ pc' = "disconnect"
       ELSE /\ result' = -1
            /\ idx' = 1
            /\ pc' = "send"
    /\ success_count' = 0
    /\ log' = <<>>
    /\ posted' = <<>>
    /\ NoSend
    /\ NoFetch
    /\ UNCHANGED <<mode, status, traceback, npass, mailbox, unseen, sessions,
                   connection, exc, failed_at, lib_exc, tried, inbox_name,
                   email_ids, emails, fetch_raised>>
    /\ UNCHANGED sideVars

\* send: one iteration of the retry loop (POST, the check of the answer,
\* the sleep and the doubling of backoff)
SendAttempt ==
    /\ pc = "send"
    /\ \E o \in PostOutcomes :
          /\ outcomes' = Append(outcomes, o)
          /\ IF Escapes(o)
             THEN /\ send_ret' = "raised"
                  /\ pc' = "sent"
                  /\ UNCHANGED <<attempt, backoff, sleeps, posted>>
             ELSE IF IsSuccess(o)
             THEN /\ send_ret' = "true"
                  /\ pc' = "sent"
                  /\ posted' = Append(posted, EmailAt(emails, idx))
                  /\ UNCHANGED <<attempt, backoff, sleeps>>
             ELSE /\ IF ShouldSleep(attempt)
                     THEN /\ sleeps' = Append(sleeps, backoff)
                          /\ backoff' = NextBackoff(backoff)
                     ELSE UNCHANGED <<sleeps, backoff>>
                  /\ attempt' = attempt + 1
                  /\ send_ret' = IF LastAttempt(attempt) THEN "false" ELSE "none"
                  /\ pc' = IF LastAttempt(attempt) THEN "sent" ELSE "send"
                  /\ UNCHANGED posted
    /\ UNCHANGED <<mode, status, traceback, npass, mailbox, unseen, sessions,
                   connection, exc, failed_at, lib_exc, tried, inbox_name,
                   email_ids, emails, fetch_raised, idx, success_count, result,
                   log>>
    /\ UNCHANGED fetchVars
    /\ UNCHANGED sideVars

\* process_emails: `if dingtalk_notifier.send(email)` and its else branch;
\* an exception of send() is not caught here and leaves the function
AfterSend ==
    /\ pc = "sent"
    /\ IF send_ret = "raised"
       THEN /\ exc' = "AttributeError"
            /\ pc' = "disconnect"
            /\ log' = Append(log, [id |-> EmailAt(emails, idx), sent |-> "raised",
                                   mark |-> "skipped"])
            /\ UNCHANGED <<idx, attempt, backoff, outcomes, sleeps, send_ret>>
       ELSE IF ShouldMark(send_ret)
       THEN /\ pc' = "mark"
            /\ UNCHANGED <<exc, log, idx, attempt, backoff, outcomes, sleeps,
                           send_ret>>
       ELSE /\ log' = Append(log, [id |-> EmailAt(emails, idx), sent |-> send_ret,
                                   mark |-> "skipped"])
            /\ Advance
            /\ UNCHANGED exc
    /\ UNCHANGED <<mode, status, traceback, npass, mailbox, unseen, sessions,
                   connection, failed_at, lib_exc, tried, inbox_name, email_ids,
                   emails, fetch_raised, success_count, result, posted>>
    /\ UNCHANGED fetchVars
    /\ UNCHANGED sideVars

\* process_emails: `if email_fetcher.mark_as_read(email.id)` with the
\* increment of success_count
MarkAsRead ==
    /\ pc = "mark"
    /\ \E store \in StoreOutcomes :
          LET marked == mark_as_read(connection, store)
              id == EmailAt(emails, idx)
          IN  /\ unseen' = IF marked THEN unseen \ {id} ELSE unseen
              /\ success_count' = success_count + CountIncrement(marked)
              /\ log' = Append(log, [id |-> id, sent |-> send_ret,
                                     mark |-> IF marked THEN "true" ELSE "false"])
    /\ Advance
    /\ UNCHANGED <<mode, status, traceback, npass, mailbox, sessions,
                   connection, exc, failed_at, lib_exc, tried, inbox_name,
                   email_ids, emails, fetch_raised, result, posted>>
    /\ UNCHANGED fetchVars
    /\ UNCHANGED sideVars

\* process_emails: return success_count
ProcessReturn ==
    /\ pc = "return"
    /\ result' = success_count
    /\ pc' = "disconnect"
    /\ UNCHANGED <<mode, status, traceback, npass, mailbox, unseen, sessions,
                   connection, exc, failed_at, lib_exc, tried, inbox_name,
                   email_ids, emails, fetch_raised, idx, success_count, attempt,
                   backoff, outcomes, sleeps, send_ret, log, posted>>
    /\ UNCHANGED fetchVars
    /\ UNCHANGED sideVars

\* email_fetcher.disconnect() in the finally clause of main and of
\* run_daemon; main then returns 0 or lets the exception end the process,
\* run_daemon has logged the exception and goes to sleep
Disconnect ==
    /\ pc = "disconnect"
    /\ sessions' = IF LogoutReached(connection) THEN sessions - 1 ELSE sessions
    /\ connection' = "None"
    /\ IF mode = "single"
       THEN /\ pc' = "exit"
            /\ status' = IF exc = "none" THEN 0 ELSE 1
            /\ traceback' = (exc # "none")
            /\ UNCHANGED exc
       ELSE IF exc = "none" \/ DaemonCatches(exc)
       THEN /\ pc' = "sleep"
            /\ exc' = "none"
            /\ UNCHANGED <<status, traceback>>
       ELSE /\ pc' = "exit"
            /\ status' = 1
            /\ traceback' = TRUE
            /\ UNCHANGED exc
    /\ UNCHANGED <<mode, npass, mailbox, unseen, failed_at, lib_exc, tried,
                   inbox_name, email_ids, emails, fetch_raised, idx,
                   success_count, result, attempt, backoff, outcomes, sleeps,
                   send_ret, log, posted>>
    /\ UNCHANGED fetchVars
    /\ UNCHANGED sideVars

\* run_daemon: time.sleep(interval), during which mail may arrive, then the
\* next iteration of `while True` with a new EmailFetcher
DaemonSleep ==
    /\ pc = "sleep"
    /\ npass < MaxPasses
    /\ \E arrived \in 0..1 :
          /\ mailbox + arrived <= MaxMsgs
          /\ mailbox' = mailbox + arrived
          /\ unseen' = unseen \cup ((mailbox + 1)..(mailbox + arrived))
    /\ npass' = npass + 1
    /\ connection' = "None"
    /\ pc' = "connect"
    /\ NoPass
    /\ UNCHANGED <<mode, status, traceback, sessions, exc, failed_at, lib_exc,
                   tried, inbox_name>>
    /\ UNCHANGED fetchVars
    /\ UNCHANGED sideVars

Next ==
    \/ LoadConfig
    \/ Connect
    \/ MainConnected
    \/ DaemonConnected
    \/ ProcessFetch
    \/ ProcessBranch
    \/ SendAttempt
    \/ AfterSend
    \/ MarkAsRead
    \/ ProcessReturn
    \/ Disconnect
    \/ DaemonSleep

Spec == Init /\ [][Next]_vars

(***************************************************************************)
(* The Mailbox Client used directly: its four methods called in any order, *)
(* in any state of the client.                                             *)
(***************************************************************************)
ClientInit ==
    /\ mode = "api"
    /\ pc = "api"
    /\ status = -1
    /\ traceback = FALSE
    /\ npass = 1
    /\ mailbox \in 0..MaxMsgs
    /\ unseen \in SUBSET (1..mailbox)
    /\ sessions = 0
    /\ connection = "None"
    /\ exc = "none"
    /\ failed_at = "none"
    /\ lib_exc = "none"
    /\ tried = 0
    /\ inbox_name = "none"
    /\ email_ids = <<>>
    /\ emails = <<>>
    /\ fetch_raised = FALSE
    /\ idx = 0
    /\ success_count = 0
    /\ result = -1
    /\ attempt = 0
    /\ backoff = INITIAL_BACKOFF
    /\ outcomes = <<>>
    /\ sleeps = <<>>
    /\ send_ret = "none"
    /\ log = <<>>
    /\ posted = <<>>
    /\ search_status = "none"
    /\ fetch_outcomes = <<>>
    /\ issued = <<>>
    /\ called = "none"
    /\ store_status = "none"
    /\ mark_ret = "none"
    /\ file_cfg = [kind |-> "nofile", values |-> NoValues]
    /\ env_cfg = NoValues
    /\ config = NoValues
    /\ html = <<>>
    /\ skip_data = FALSE
    /\ text_parts = <<>>
    /\ text = <<>>
    /\ NoParse
    /\ NoFormat

\* connect(), on a client that holds no connection
ClientConnect ==
    /\ pc = "api"
    /\ NotConnected(connection)
    /\ sessions < MaxPasses
    /\ \E r \in ConnectResults :
              /\ connection' = r.connection
              /\ sessions' = sessions + (IF r.opened THEN 1 ELSE 0)
              /\ exc' = r.exc
    /\ called' = "connect"
    /\ store_status' = "none"
    /\ mark_ret' = "none"
    /\ NoFetch
    /\ NoConnect
    /\ UNCHANGED <<runVars, sendVars, loopVars, mailbox, unseen, email_ids,
                   emails, fetch_raised>>
    /\ UNCHANGED <<cfgVars, htmlVars, parseVars, formatVars>>

\* fetch_unread_emails()
ClientFetch ==
    /\ pc = "api"
    /\ \E search \in SearchOutcomes, o \in [unseen -> FetchOutcomes] :
          LET r == fetch_unread_emails(connection, search, o, unseen)
          IN  /\ email_ids' = r.ids
              /\ emails' = r.emails
              /\ fetch_raised' = r.raised
              /\ unseen' = unseen \ r.seen
              /\ exc' = IF r.raised THEN "EmailFetcherError" ELSE "none"
    /\ called' = "fetch_unread_emails"
    /\ store_status' = "none"
    /\ mark_ret' = "none"
    /\ NoFetch
    /\ NoConnect
    /\ UNCHANGED <<runVars, sendVars, loopVars, mailbox, sessions, connection>>
    /\ UNCHANGED <<cfgVars, htmlVars, parseVars, formatVars>>

\* mark_as_read(email_id)
ClientMark ==
    /\ pc = "api"
    /\ \E id \in 1..mailbox, store \in StoreOutcomes :
          LET marked == mark_as_read(connection, store)
          IN  /\ unseen' = IF marked THEN unseen \ {id} ELSE unseen
              /\ mark_ret' = IF MarkRaises(connection, store) # "none" THEN "none"
                             ELSE IF marked THEN "true" ELSE "false"
              /\ store_status' = IF StoreIssued(connection) THEN store ELSE "none"
              /\ exc' = MarkRaises(connection, store)
    /\ called' = "mark_as_read"
    /\ NoFetch
    /\ NoConnect
    /\ UNCHANGED <<runVars, sendVars, loopVars, mailbox, sessions, connection,
                   email_ids, emails, fetch_raised>>
    /\ UNCHANGED <<cfgVars, htmlVars, parseVars, formatVars>>

\* disconnect()
ClientDisconnect ==
    /\ pc = "api"
    /\ sessions' = IF LogoutReached(connection) THEN sessions - 1 ELSE sessions
    /\ connection' = "None"
    /\ exc' = "none"
    /\ called' = "disconnect"
    /\ store_status' = "none"
    /\ mark_ret' = "none"
    /\ NoFetch
    /\ NoConnect
    /\ UNCHANGED <<runVars, sendVars, loopVars, mailbox, unseen, email_ids,
                   emails, fetch_raised>>
    /\ UNCHANGED <<cfgVars, htmlVars, parseVars, formatVars>>

ClientNext ==
    \/ ClientConnect
    \/ ClientFetch
    \/ ClientMark
    \/ ClientDisconnect

ClientSpec == ClientInit /\ [][ClientNext]_vars

(***************************************************************************)
(* Properties.                                                             *)
(***************************************************************************)
\* position of x in the sequence s (0 when absent)
Pos(s, x) == IF x \in Range(s) THEN Min({i \in 1..Len(s) : s[i] = x}) ELSE 0

\* the pass has ended: process_emails returned or was left by an exception
PassEnded == pc \in {"disconnect", "sleep"} \/ (pc = "exit" /\ email_ids # <<>>)

\* message id was both notified and marked in this pass
Done(id) == \E i \in 1..Len(log) :
                log[i].id = id /\ log[i].sent = "true" /\ log[i].mark = "true"

\* C1: in a pass, mark_as_read is invoked for a message only after send()
\* returned true for that message, and never for a message whose send()
\* returned false.
C1_MarkOnlyAfterSend ==
    /\ pc = "mark" => send_ret = "true"
    /\ \A i \in 1..Len(log) :
          /\ log[i].mark # "skipped" => log[i].sent = "true"
          /\ log[i].sent = "false" => log[i].mark = "skipped"
          /\ log[i].id = emails[i]

C1_Witness ==
    /\ Len(log) = 3
    /\ log[1].sent = "true" /\ log[1].mark # "skipped"
    /\ log[2].sent = "false" /\ log[2].mark = "skipped"
    /\ log[3].sent = "true" /\ log[3].mark # "skipped"

\* C2: the value process_emails returns is the number of fetched messages
\* for which send() and mark_as_read() both returned true; it is 0 when the
\* fetch raised or returned no message.
C2_CountBothSucceeded ==
    result >= 0 =>
        /\ Len(log) = Len(emails)
        /\ result = Cardinality({i \in 1..Len(log) :
                        log[i].sent = "true" /\ log[i].mark = "true"})
        /\ (fetch_raised \/ emails = <<>>) => result = 0

C2_Witness ==
    /\ result = 1
    /\ Len(log) = 3
    /\ \E i, j, k \in 1..Len(log) :
          /\ log[i].sent = "true" /\ log[i].mark = "false"
          /\ log[j].sent = "true" /\ log[j].mark = "true"
          /\ log[k].sent = "false"

\* C3 (as claimed): no failure in the per-message path aborts the batch or
\* ends the process: when the pass has ended, send() has been attempted for
\* every fetched message, and the process has not died of an exception of
\* the per-message path.
C3_BatchNeverAborted ==
    /\ PassEnded => Len(log) = Len(emails)
    /\ ~(traceback /\ exc = "AttributeError")

\* C4: messages are processed one after the other in fetch order: a POST
\* for a message is made only when every earlier message of the batch has
\* completed its notify-then-mark sequence, and the successful deliveries
\* are in unread-discovery order.
C4_SequentialInOrder ==
    /\ (pc \in {"send", "sent", "mark"} /\ outcomes # <<>>) =>
          /\ Len(log) = idx - 1
          /\ \A k \in 1..(idx - 1) :
                /\ log[k].id = emails[k]
                /\ log[k].sent = "false" \/ log[k].mark \in {"true", "false"}
    /\ \A i, j \in 1..Len(posted) :
          i < j => /\ Pos(email_ids, posted[i]) > 0
                   /\ Pos(email_ids, posted[i]) < Pos(email_ids, posted[j])

C4_Witness ==
    /\ Len(posted) >= 2
    /\ pc = "mark"
    /\ idx = 2

\* C5: when every attempt fails at transport level, send() makes exactly 3
\* POSTs, sleeps exactly twice, for 1 and then 2, not after the third
\* attempt, and returns false.
C5_PersistentTransportFailure ==
    /\ (pc = "sent" /\ \A i \in 1..Len(outcomes) : outcomes[i] = "RequestException") =>
          /\ Len(outcomes) = 3
          /\ sleeps = <<1, 2>>
          /\ send_ret = "false"
    /\ (\A i \in 1..Len(outcomes) : outcomes[i] = "RequestException") =>
          /\ Len(outcomes) <= 3
          /\ Len(sleeps) <= 2

C5_Witness ==
    /\ pc = "sent"
    /\ outcomes = <<"RequestException", "RequestException", "RequestException">>
    /\ send_ret = "false"

\* C6: send() returns true exactly when one of its at most 3 attempts is
\* answered with errcode 0, and then that attempt is its last POST and no
\* sleep follows it; an attempt answered with a nonzero errcode is retried
\* like a transport failure; send() returns false only after 3 failed
\* attempts.
C6_SendResult ==
    pc = "sent" =>
        /\ Len(outcomes) \in 1..3
        /\ send_ret = "true" <=> (\E i \in 1..Len(outcomes) : outcomes[i] = "ok")
        /\ send_ret = "true" =>
              /\ outcomes[Len(outcomes)] = "ok"
              /\ \A i \in 1..(Len(outcomes) - 1) :
                    outcomes[i] \in {"errcode", "RequestException"}
              /\ sleeps = SubSeq(<<1, 2>>, 1, Len(outcomes) - 1)
        /\ send_ret = "false" =>
              /\ Len(outcomes) = 3
              /\ \A i \in 1..3 : outcomes[i] \in {"errcode", "RequestException"}
              /\ sleeps = <<1, 2>>

C6_Witness ==
    /\ pc = "sent"
    /\ send_ret = "true"
    /\ outcomes = <<"errcode", "ok">>
    /\ sleeps = <<1>>

\* C7 (as claimed): a fetched message whose notify failed, or whose notify
\* succeeded and whose mark-read failed, is still unread on the server when
\* the pass has ended (so that the next pass fetches it again).
C7_StillUnreadAfterPass ==
    PassEnded =>
        \A i \in 1..Len(log) :
            (log[i].sent = "false" \/ (log[i].sent = "true" /\ log[i].mark = "false"))
                => (~Done(log[i].id) /\ log[i].id \in unseen)

\* C8 (as claimed): every session connect() opened has been logged out
\* when the single run returns and when the continuous loop goes to sleep
\* before its next pass.
C8_SessionReleased ==
    pc \in {"exit", "sleep"} => sessions = 0

\* C9 (as claimed): connect() raises the folder-selection error when no
\* inbox name can be selected, an authentication error only for rejected
\* credentials and a connection error only for network or timeout failures.
C9_DistinctErrorKinds ==
    pc = "connected" =>
        /\ (failed_at = "select" /\ lib_exc = "none") =>
              (exc = "EmailFetcherError" /\ tried = Len(inbox_names))
        /\ exc = "AuthenticationError" =>
              (failed_at = "login" /\ lib_exc = "IMAP4.error")
        /\ exc = "ConnectionError" =>
              lib_exc \in {"socket.timeout", "OSError"}

\* C10 (as claimed): when connect() returns normally an inbox is selected,
\* and when it raises the client holds no session: fetch_unread_emails
\* would report not-connected and mark_as_read would return false at its
\* first guard.
C10_NoHalfOpenSession ==
    pc = "connected" =>
        /\ exc = "none" => connection = "SELECTED"
        /\ exc # "none" => NotConnected(connection)

\* C11: in fetch_unread_emails a failure to fetch or parse one message
\* (status not OK, no data, or an exception) only skips that message: a
\* fetch is issued for every id of the search result, and the returned list
\* is exactly the parsed messages, in search-result order.
C11_FailureSkipsOneMessage ==
    (pc = "fetched" /\ search_status = "OK") =>
        /\ ~fetch_raised
        /\ issued = email_ids
        /\ emails = SelectSeq(email_ids, LAMBDA id : fetch_outcomes[id] = "ok")

C11_Witness ==
    /\ pc = "fetched"
    /\ Len(email_ids) = 3
    /\ fetch_outcomes[email_ids[2]] = "IMAP4.abort"
    /\ emails = <<email_ids[1], email_ids[3]>>

\* C12 (as claimed): a protocol failure during the fetch of some message
\* makes fetch_unread_emails raise a fetch error and stop: no later message
\* is fetched and no partial list is returned.
C12_ProtocolFailureAborts ==
    pc = "fetched" =>
        \A k \in 1..Len(issued) :
            fetch_outcomes[issued[k]] = "IMAP4.abort" =>
                /\ fetch_raised
                /\ emails = <<>>
                /\ Len(issued) = k

\* C13 (as amended): when the client is connected and the unseen search
\* answers with a status other than OK, fetch_unread_emails returns an empty
\* list and fetches nothing; when the search command raises, it raises a
\* fetch error.
C13_SearchFailure ==
    pc = "fetched" =>
        /\ search_status = "NO" =>
              (~fetch_raised /\ emails = <<>> /\ issued = <<>>)
        /\ search_status = "exc" => fetch_raised

C13_Witness ==
    /\ pc = "fetched"
    /\ search_status = "NO"
    /\ unseen # {}
    /\ emails = <<>>
    /\ ~fetch_raised

\* C13 (as claimed): whenever the search fails, by status or by an error,
\* fetch_unread_emails returns an empty list and does not raise.
C13_SearchFailureReturnsEmpty ==
    (pc = "fetched" /\ search_status \in {"NO", "exc"}) =>
        (~fetch_raised /\ emails = <<>>)

\* C14: mark_as_read never raises, in any state of the client; it returns
\* true exactly when the server acknowledged the store with OK, and false
\* when the client is not connected, when the store is answered with
\* another status, and when the store command fails.
C14_MarkReadNeverRaises ==
    called = "mark_as_read" =>
        /\ exc = "none"
        /\ mark_ret \in {"true", "false"}
        /\ mark_ret = "true" <=> store_status = "OK"
        /\ connection # "SELECTED" => (mark_ret = "false" /\ store_status = "none")

C14_Witness ==
    /\ called = "mark_as_read"
    /\ connection = "None"
    /\ unseen # {}
    /\ mark_ret = "false"

\* C15: in continuous mode, once the configuration has loaded, no error of
\* a pass ends the loop: the process leaves only by the configuration
\* error, and after every pass, failed or not, it disconnects, sleeps and
\* starts the next pass (here: up to pass MaxPasses).
C15_DaemonNeverExits ==
    mode = "daemon" =>
        /\ pc = "exit" => (status = 1 /\ ~traceback /\ npass = 1 /\ sessions = 0
                           /\ connection = "None" /\ result = -1)
        /\ pc # "exit" => status = -1
        /\ (pc # "exit" /\ ~(pc = "sleep" /\ npass >= MaxPasses)) => ENABLED Next

C15_Witness ==
    /\ mode = "daemon"
    /\ npass = 2
    /\ pc = "connect"
    /\ sessions = 1

\* C16 (as claimed): when a pass starts no session of an earlier pass is
\* still open, so at most one mail-server session is open at any time.
C16_AtMostOneSession ==
    /\ sessions <= 1
    /\ pc = "connect" => sessions = 0

\* process_emails was entered: connect() had returned normally
ConnectSucceeded == result >= 0 \/ log # <<>>

\* C17 (as claimed): in single-run mode a configuration error, an
\* authentication error and a connection error end the run with statuses
\* 1, 2 and 3, and once connect() has succeeded the run ends with status 0
\* whatever happens to the messages.
C17_ExitStatus ==
    (mode = "single" /\ pc = "exit") =>
        /\ exc = "AuthenticationError" => status = 2
        /\ exc = "ConnectionError" => status = 3
        /\ ConnectSucceeded => status = 0

(***************************************************************************)
(* Start of the process over every config file and environment: the       *)
(* config is loaded, and on success the mailbox is connected to.           *)
(***************************************************************************)
ConfigInit ==
    /\ mode \in {"single", "daemon"}
    /\ pc = "load_config"
    /\ status = -1
    /\ traceback = FALSE
    /\ npass = 1
    /\ mailbox = 0
    /\ unseen = {}
    /\ sessions = 0
    /\ connection = "None"
    /\ exc = "none"
    /\ failed_at = "none"
    /\ lib_exc = "none"
    /\ tried = 0
    /\ inbox_name = "none"
    /\ email_ids = <<>>
    /\ emails = <<>>
    /\ fetch_raised = FALSE
    /\ idx = 0
    /\ success_count = 0
    /\ result = -1
    /\ attempt = 0
    /\ backoff = INITIAL_BACKOFF
    /\ outcomes = <<>>
    /\ sleeps = <<>>
    /\ send_ret = "none"
    /\ log = <<>>
    /\ posted = <<>>
    /\ search_status = "none"
    /\ fetch_outcomes = <<>>
    /\ issued = <<>>
    /\ called = "none"
    /\ store_status = "none"
    /\ mark_ret = "none"
    /\ file_cfg \in ConfigFiles
    /\ env_cfg \in ConfigEnvs
    /\ config = NoValues
    /\ html = <<>>
    /\ skip_data = FALSE
    /\ text_parts = <<>>
    /\ text = <<>>
    /\ NoParse
    /\ NoFormat

ConfigNext == LoadConfig \/ Connect

ConfigSpec == ConfigInit /\ [][ConfigNext]_vars

\* what load_config is to return for a field: the environment's value
\* when it is set and not empty, else the file's, else nothing
Expected(f) ==
    IF env_cfg[f] \notin {"absent", ""} THEN env_cfg[f]
    ELSE IF file_cfg.values[f] \notin {"absent", ""} THEN file_cfg.values[f]
    ELSE "missing"

\* C18: once the config was loaded from a readable file and the
\* environment: when a required field is absent or empty in both, the
\* process ended with status 1 and no session was opened and nothing was
\* posted; when all five have a value, loading succeeded and each field
\* holds the environment's value if there is one, else the file's.
C18_LoadConfig ==
    (pc # "load_config" /\ file_cfg.kind # "badjson") =>
        /\ (\E f \in REQUIRED_FIELDS : Expected(f) = "missing") =>
               /\ pc = "exit" /\ status = 1
               /\ sessions = 0 /\ connection = "None" /\ tried = 0
               /\ posted = <<>> /\ outcomes = <<>>
               /\ config = NoValues
        /\ (\A f \in REQUIRED_FIELDS : Expected(f) # "missing") =>
               /\ pc # "exit" /\ status = -1
               /\ config = [f \in REQUIRED_FIELDS |-> Expected(f)]

\* a host set in both, with an empty user in the environment, and the
\* rest only in the environment: loading succeeded with the merged values
C18_Witness ==
    /\ pc = "connect"
    /\ file_cfg.kind = "dict"
    /\ file_cfg.values["email_host"] = "f" /\ env_cfg["email_host"] = "e"
    /\ file_cfg.values["email_user"] = "f" /\ env_cfg["email_user"] = ""
    /\ file_cfg.values["email_password"] = "absent"
    /\ config["email_host"] = "e"
    /\ config["email_user"] = "f"
    /\ config["email_password"] = "e"
(***************************************************************************)
(* _html_to_text over every well-formed document of up to MaxTokens        *)
(* tokens: feed calls one handler per token, then get_text is taken.       *)
(***************************************************************************)
HtmlInit ==
    /\ mode = "html"
    /\ pc = "feed"
    /\ status = -1
    /\ traceback = FALSE
    /\ npass = 1
    /\ mailbox = 0
    /\ unseen = {}
    /\ sessions = 0
    /\ connection = "None"
    /\ exc = "none"
    /\ failed_at = "none"
    /\ lib_exc = "none"
    /\ tried = 0
    /\ inbox_name = "none"
    /\ email_ids = <<>>
    /\ emails = <<>>
    /\ fetch_raised = FALSE
    /\ idx = 0
    /\ success_count = 0
    /\ result = -1
    /\ attempt = 0
    /\ backoff = INITIAL_BACKOFF
    /\ outcomes = <<>>
    /\ sleeps = <<>>
    /\ send_ret = "none"
    /\ log = <<>>
    /\ posted = <<>>
    /\ search_status = "none"
    /\ fetch_outcomes = <<>>
    /\ issued = <<>>
    /\ called = "none"
    /\ store_status = "none"
    /\ mark_ret = "none"
    /\ file_cfg = [kind |-> "nofile", values |-> NoValues]
    /\ env_cfg = NoValues
    /\ config = NoValues
    /\ html = <<>>
    /\ skip_data = FALSE
    /\ text_parts = <<>>
    /\ text = <<>>
    /\ NoParse
    /\ NoFormat

\* everything but the extractor and the position of the conversion
htmlFrame ==
    <<mode, status, traceback, npass, mailbox, unseen, sessions, connection,
      exc, failed_at, lib_exc, tried, inbox_name, email_ids, emails,
      fetch_raised, idx, success_count, result, attempt, backoff, outcomes,
      sleeps, send_ret, log, posted, search_status, fetch_outcomes, issued,
      called, store_status, mark_ret, file_cfg, env_cfg, config, msg, body,
      content, charset, decoded, email, message>>

extractor == [skip_data |-> skip_data, text_parts |-> text_parts]

\* the next token may be a tag: not inside a script or style element
TagAllowed ==
    LET open == OpenElements(html)
    IN  IF open = <<>> THEN TRUE ELSE open[Len(open)] \notin CDataElements

Feed(token, e) ==
    /\ html' = Append(html, token)
    /\ skip_data' = e.skip_data
    /\ text_parts' = e.text_parts
    /\ UNCHANGED <<pc, text, htmlFrame>>

\* an opening tag, of an element with content or of a void element
handle_starttag ==
    /\ pc = "feed"
    /\ Len(html) < MaxTokens
    /\ TagAllowed
    /\ \E tag \in Elements \cup VoidElements :
          Feed([type |-> IF tag \in VoidElements THEN "void" ELSE "start", tag |-> tag],
               starttag(extractor, tag))

\* a self-closed void element: HTMLParser.handle_startendtag calls
\* handle_starttag and then handle_endtag
handle_startendtag ==
    /\ pc = "feed"
    /\ Len(html) < MaxTokens
    /\ TagAllowed
    /\ \E tag \in VoidElements :
          Feed([type |-> "startend", tag |-> tag],
               endtag(starttag(extractor, tag), tag))

\* the closing tag of the innermost open element
handle_endtag ==
    /\ pc = "feed"
    /\ Len(html) < MaxTokens
    /\ OpenElements(html) # <<>>
    /\ LET open == OpenElements(html)
           tag == open[Len(open)]
       IN  Feed([type |-> "end", tag |-> tag], endtag(extractor, tag))

\* a piece of text, named after its position in the document
handle_data ==
    /\ pc = "feed"
    /\ Len(html) < MaxTokens
    /\ (IF html = <<>> THEN TRUE ELSE html[Len(html)].type # "data")
    /\ LET d == "t" \o ToString(Len(html) + 1)
       IN  Feed([type |-> "data", tag |-> d], data(extractor, d))

\* the document is complete: extractor.get_text()
GetText ==
    /\ pc = "feed"
    /\ OpenElements(html) = <<>>
    /\ pc' = "text"
    /\ text' = get_text(text_parts)
    /\ UNCHANGED <<html, skip_data, text_parts, htmlFrame>>

HtmlNext ==
    \/ handle_starttag
    \/ handle_startendtag
    \/ handle_endtag
    \/ handle_data
    \/ GetText

HtmlSpec == HtmlInit /\ [][HtmlNext]_vars

\* C19: the text of a well-formed document holds no character data that
\* lies inside a script, style or head element (meta and link elements
\* have no content), also when an element inside it was closed before.
C19_SkippedDataNeverOutput ==
    pc = "text" => Range(text) \cap DataOf(html, TRUE) = {}

\* C20: the text of a well-formed document holds every piece of character
\* data that lies outside all script, style and head elements, also after
\* a meta or link tag that has no closing tag.
C20_OutsideDataKept ==
    pc = "text" => DataOf(html, FALSE) \subseteq Range(text)
(***************************************************************************)
(* EmailParser._extract_body over every message of up to MaxParts parts.   *)
(***************************************************************************)
Messages ==
    {[multipart |-> FALSE, parts |-> <<p>>] : p \in Parts}
    \cup {[multipart |-> TRUE, parts |-> ps] :
             ps \in UNION {[1..n -> Parts] : n \in 1..MaxParts}}

BodyInit ==
    /\ mode = "parse"
    /\ pc = "extract_body"
    /\ status = -1
    /\ traceback = FALSE
    /\ npass = 1
    /\ mailbox = 0
    /\ unseen = {}
    /\ sessions = 0
    /\ connection = "None"
    /\ exc = "none"
    /\ failed_at = "none"
    /\ lib_exc = "none"
    /\ tried = 0
    /\ inbox_name = "none"
    /\ email_ids = <<>>
    /\ emails = <<>>
    /\ fetch_raised = FALSE
    /\ idx = 0
    /\ success_count = 0
    /\ result = -1
    /\ attempt = 0
    /\ backoff = INITIAL_BACKOFF
    /\ outcomes = <<>>
    /\ sleeps = <<>>
    /\ send_ret = "none"
    /\ log = <<>>
    /\ posted = <<>>
    /\ search_status = "none"
    /\ fetch_outcomes = <<>>
    /\ issued = <<>>
    /\ called = "none"
    /\ store_status = "none"
    /\ mark_ret = "none"
    /\ file_cfg = [kind |-> "nofile", values |-> NoValues]
    /\ env_cfg = NoValues
    /\ config = NoValues
    /\ html = <<>>
    /\ skip_data = FALSE
    /\ text_parts = <<>>
    /\ text = <<>>
    /\ msg \in Messages
    /\ body = NoBody
    /\ content = "empty"
    /\ charset = "None"
    /\ decoded = [raised |-> "none", attempted |-> <<>>, text |-> NoText]
    /\ NoFormat

\* everything but the position and the parser's variables
parseFrame ==
    <<mode, status, traceback, npass, mailbox, unseen, sessions, connection,
      exc, failed_at, lib_exc, tried, inbox_name, email_ids, emails,
      fetch_raised, idx, success_count, result, attempt, backoff, outcomes,
      sleeps, send_ret, log, posted, search_status, fetch_outcomes, issued,
      called, store_status, mark_ret, file_cfg, env_cfg, config, html,
      skip_data, text_parts, text, email, message>>

\* body = cls._extract_body(msg)
ExtractBody ==
    /\ pc = "extract_body"
    /\ pc' = "body"
    /\ body' = extract_body(msg)
    /\ UNCHANGED <<msg, content, charset, decoded, parseFrame>>

BodyNext == ExtractBody

BodySpec == BodyInit /\ [][BodyNext]_vars

\* the first part of the kind that is no attachment (when attachments are
\* to be left out) and has a payload, 0 when there is none
FirstUsable(type, attachments) ==
    FirstIn({i \in 1..Len(msg.parts) :
                /\ msg.parts[i].type = type
                /\ msg.parts[i].payload # "empty"
                /\ (attachments \/ ~IsAttachment(msg.parts[i]))})

\* C21: the body of a multi-part message is made of its first text/plain
\* part that is no attachment and has a payload; when there is none, of its
\* first text/html part with a payload, converted to text; the body of a
\* single-part message is made of its payload; it is empty when there is
\* no such part, and no error is raised.
C21_BodySelection ==
    pc = "body" =>
        /\ body.raised = "none"
        /\ msg.multipart =>
              IF FirstUsable("text/plain", FALSE) # 0
              THEN body.via = "plain" /\ body.part = FirstUsable("text/plain", FALSE)
              ELSE IF FirstUsable("text/html", TRUE) # 0
              THEN body.via = "html" /\ body.part = FirstUsable("text/html", TRUE)
              ELSE body = NoBody
        /\ ~msg.multipart =>
              IF msg.parts[1].payload # "empty"
              THEN body.via = "payload" /\ body.part = 1
              ELSE body = NoBody
(***************************************************************************)
(* DingTalkNotifier.format_message over bodies of every length up to       *)
(* MaxOver characters beyond the limit.                                    *)
(***************************************************************************)
Emails ==
    {[subject |-> "subject", sender |-> "sender", date |-> "date", body |-> Chars(n)] :
        n \in 0..(BodyLimit + MaxOver)}

FormatInit ==
    /\ mode = "format"
    /\ pc = "format_message"
    /\ status = -1
    /\ traceback = FALSE
    /\ npass = 1
    /\ mailbox = 0
    /\ unseen = {}
    /\ sessions = 0
    /\ connection = "None"
    /\ exc = "none"
    /\ failed_at = "none"
    /\ lib_exc = "none"
    /\ tried = 0
    /\ inbox_name = "none"
    /\ email_ids = <<>>
    /\ emails = <<>>
    /\ fetch_raised = FALSE
    /\ idx = 0
    /\ success_count = 0
    /\ result = -1
    /\ attempt = 0
    /\ backoff = INITIAL_BACKOFF
    /\ outcomes = <<>>
    /\ sleeps = <<>>
    /\ send_ret = "none"
    /\ log = <<>>
    /\ posted = <<>>
    /\ search_status = "none"
    /\ fetch_outcomes = <<>>
    /\ issued = <<>>
    /\ called = "none"
    /\ store_status = "none"
    /\ mark_ret = "none"
    /\ file_cfg = [kind |-> "nofile", values |-> NoValues]
    /\ env_cfg = NoValues
    /\ config = NoValues
    /\ html = <<>>
    /\ skip_data = FALSE
    /\ text_parts = <<>>
    /\ text = <<>>
    /\ NoParse
    /\ email \in Emails
    /\ message = [msgtype |-> "none"]

\* everything but the position and the notifier's message
formatFrame ==
    <<mode, status, traceback, npass, mailbox, unseen, sessions, connection,
      exc, failed_at, lib_exc, tried, inbox_name, email_ids, emails,
      fetch_raised, idx, success_count, result, attempt, backoff, outcomes,
      sleeps, send_ret, log, posted, search_status, fetch_outcomes, issued,
      called, store_status, mark_ret, file_cfg, env_cfg, config, html,
      skip_data, text_parts, text, msg, body, content, charset, decoded>>

\* message = self.format_message(email): email.body is read, the cut body
\* is a new string bound to a local
FormatMessage ==
    /\ pc = "format_message"
    /\ pc' = "post"
    /\ message' = format_message(email)
    /\ UNCHANGED <<email, formatFrame>>

FormatNext == FormatMessage

FormatSpec == FormatInit /\ [][FormatNext]_vars

\* C22: in the payload format_message built, a body of more than 2000
\* characters appears as its first 2000 characters followed by the
\* truncation marker and nothing else, a body of at most 2000 characters
\* appears as it is, and the Email passed in still has its whole body.
C22_BodyTruncated ==
    pc = "post" =>
        LET b == email.body
            out == message.markdown.text.body
        IN  /\ Len(b) > BodyLimit =>
                 /\ Len(out) = BodyLimit + Len(TruncationMarker)
                 /\ \A i \in 1..BodyLimit : out[i] = b[i]
                 /\ \A i \in 1..Len(TruncationMarker) : out[BodyLimit + i] = TruncationMarker[i]
            /\ Len(b) <= BodyLimit => out = b
            /\ b = Chars(Len(b))
            /\ email.subject = "subject" /\ email.sender = "sender" /\ email.date = "date"

\* a body one character over the limit was formatted
C22_Witness ==
    /\ pc = "post"
    /\ Len(email.body) = BodyLimit + 1
    /\ Len(message.markdown.text.body) = BodyLimit + Len(TruncationMarker)
    /\ message.markdown.text.body[BodyLimit] = email.body[BodyLimit]
(***************************************************************************)
(* EmailParser.decode_content over every byte string and declared charset. *)
(***************************************************************************)
DecodeInit ==
    /\ mode = "decode"
    /\ pc = "decode_content"
    /\ status = -1
    /\ traceback = FALSE
    /\ npass = 1
    /\ mailbox = 0
    /\ unseen = {}
    /\ sessions = 0
    /\ connection = "None"
    /\ exc = "none"
    /\ failed_at = "none"
    /\ lib_exc = "none"
    /\ tried = 0
    /\ inbox_name = "none"
    /\ email_ids = <<>>
    /\ emails = <<>>
    /\ fetch_raised = FALSE
    /\ idx = 0
    /\ success_count = 0
    /\ result = -1
    /\ attempt = 0
    /\ backoff = INITIAL_BACKOFF
    /\ outcomes = <<>>
    /\ sleeps = <<>>
    /\ send_ret = "none"
    /\ log = <<>>
    /\ posted = <<>>
    /\ search_status = "none"
    /\ fetch_outcomes = <<>>
    /\ issued = <<>>
    /\ called = "none"
    /\ store_status = "none"
    /\ mark_ret = "none"
    /\ file_cfg = [kind |-> "nofile", values |-> NoValues]
    /\ env_cfg = NoValues
    /\ config = NoValues
    /\ html = <<>>
    /\ skip_data = FALSE
    /\ text_parts = <<>>
    /\ text = <<>>
    /\ msg = [multipart |-> FALSE, parts |-> <<>>]
    /\ body = NoBody
    /\ content \in Contents
    /\ charset \in Charsets
    /\ decoded = [raised |-> "none", attempted |-> <<>>, text |-> NoText]
    /\ NoFormat

\* cls.decode_content(content, charset)
DecodeContent ==
    /\ pc = "decode_content"
    /\ pc' = IF decode_content(content, charset).raised = "none" THEN "decoded" ELSE "raised"
    /\ decoded' = decode_content(content, charset)
    /\ UNCHANGED <<msg, body, content, charset, parseFrame>>

DecodeNext == DecodeContent

DecodeSpec == DecodeInit /\ [][DecodeNext]_vars

\* the codecs in the order they are to be attempted
AttemptOrder ==
    (IF charset \in {"None", ""} THEN <<>> ELSE <<charset>>) \o SUPPORTED_ENCODINGS

\* C23: decode_content ends with a text and raises nothing, whatever the
\* bytes and the declared charset: for no bytes the empty text with no
\* decoding attempted; else the declared charset is attempted first, then
\* the codecs of the list in their order, the text is that of the first
\* attempt that succeeds, and UTF-8 with replacement only when all failed.
C23_DecodeNeverRaises ==
    pc \notin {"decode_content"} =>
        LET k == Len(decoded.attempted)
        IN  /\ pc = "decoded"
            /\ decoded.raised = "none"
            /\ content = "empty" => (decoded.text = NoText /\ k = 0)
            /\ content # "empty" =>
                  /\ k >= 1
                  /\ decoded.attempted = SubSeq(AttemptOrder, 1, k)
                  /\ \A i \in 1..(k - 1) : Decode(content, AttemptOrder[i]) # "ok"
                  /\ decoded.text.bytes = content
                  /\ IF decoded.text.errors = "strict"
                     THEN /\ Decode(content, AttemptOrder[k]) = "ok"
                          /\ decoded.text.encoding = AttemptOrder[k]
                     ELSE /\ k = Len(AttemptOrder)
                          /\ Decode(content, AttemptOrder[k]) # "ok"
                          /\ decoded.text.encoding = "utf-8"
====
